---- MODULE Spec2Model ----
(***************************************************************************)
(* A model of src/mm.c: a segregated-list, best-fit memory allocator with  *)
(* 2-byte compact headers, a large-block encoding, and a wilderness block. *)
(*                                                                         *)
(* Addresses are byte offsets from mem_heap_lo().  The heap is a sparse    *)
(* byte map: a byte that is not in the map holds the arena's initial       *)
(* content `fill`.  Multi-byte accesses are little-endian (x86-64).        *)
(* Every C function is an operator from a heap record to a heap record;    *)
(* a function's return value is the field `ret` of the result.             *)
(***************************************************************************)
EXTENDS Integers, Sequences, FiniteSets, TLC

(* ---------------------------- program constants ------------------------ *)
SMALL == 0
LARGE == 4
PFREE == 0
PALLOC == 2
FREE == 0
ALLOC == 1
HSIZE == 2
WSIZE == 4
DSIZE == 8
MINSIZE == 16
CHUNKSIZE == 192
SEGSIZE == 16
LARGE_MIN == 65536
LARGE_SENTINEL == 65528

(* NULL is no offset of the heap. *)
NULL == -1

(* ------------------------------- bounds -------------------------------- *)
(* Number of public calls made after mm_init, *)
(* and in the workload of growing requests.   *)
MaxCalls == 3
MergeCalls == 6
(* Number of allocations the caller holds at once. *)
MaxLive == 3
(* The same two numbers for the caller that only allocates and frees. *)
ChurnCalls == 7
ChurnLive == 4

(* TLC's integers end at 2^31 - 1, and so do the heap's offsets            *)
(* (get_offset: ASSERT(offset < 1U << 31)): a 32-bit or size_t value of the *)
(* model never reaches 2^31, and an unsigned subtraction that would wrap   *)
(* is written out as the case it is.                                       *)
TwoTo8 == 256
TwoTo16 == 65536

(* ------------------------------ raw memory ----------------------------- *)

in_heap(h, p) == p >= 0 /\ p <= h.brk - 1

UB(h) == [h EXCEPT !.ub = TRUE]

RdB(h, a) == IF a \in DOMAIN h.mem THEN h.mem[a] ELSE h.fill

(* The byte map keeps only the bytes that differ from `fill`. *)
WrB(m, fill, a, v) ==
    IF v = fill
      THEN IF a \in DOMAIN m THEN [x \in DOMAIN m \ {a} |-> m[x]] ELSE m
      ELSE IF a \in DOMAIN m THEN [m EXCEPT ![a] = v] ELSE (a :> v) @@ m

get16(h, p) == RdB(h, p) + TwoTo8 * RdB(h, p + 1)

(* A 32-bit value of 2^29 or more stands for an offset or a size far outside *)
(* the heap; it is read as 2^29 plus its three flag bits.                   *)
Huge == 8192 * TwoTo16

get32(h, p) ==
    LET lo == get16(h, p)
        hi == get16(h, p + 2)
    IN  IF hi >= 8192 THEN Huge + (lo % 8) ELSE lo + TwoTo16 * hi

set16(h, p, val) ==
    IF h.ub THEN h
    ELSE IF ~(in_heap(h, p) /\ in_heap(h, p + 1)) THEN UB(h)
    ELSE LET v  == val % TwoTo16
             m1 == WrB(h.mem, h.fill, p, v % TwoTo8)
             m2 == WrB(m1, h.fill, p + 1, v \div TwoTo8)
         IN  [h EXCEPT !.mem = m2]

set32(h, p, val) ==
    set16(set16(h, p, val % TwoTo16), p + 2, val \div TwoTo16)

(* ------------------------------ bit fields ----------------------------- *)

(* x & ~0x7 *)
ClearLow3(x) == x - (x % 8)

(* Bitwise OR of two values below 8. *)
Or3(a, b) ==
    LET bit(x, k) == (x \div k) % 2
        o(k) == IF bit(a, k) = 1 \/ bit(b, k) = 1 THEN k ELSE 0
    IN  o(1) + o(2) + o(4)

pack16(size, large, prev, alloc) ==
    (ClearLow3(size) + Or3(size % 8, large + prev + alloc)) % TwoTo16

pack32(size, large, prev, alloc) ==
    ClearLow3(size) + Or3(size % 8, large + prev + alloc)

get_alloc(h, p) == get16(h, p) % 2

get_large(h, p) == (get16(h, p) \div 4) % 2

get_palloc(h, p) == ((get16(h, p) \div 2) % 2) * 2

set_alloc(h, p, val) ==
    LET v == get16(h, p) IN set16(h, p, (v - (v % 2)) + val)

set_palloc(h, p, val) ==
    LET v == get16(h, p) IN set16(h, p, (v - ((v \div 2) % 2) * 2) + val)

(* ---------------------------- block navigation ------------------------- *)

hdrp(p) == p - HSIZE

geth_size(h, p) ==
    IF get_large(h, hdrp(p)) = 1
      THEN ClearLow3(get32(h, p + WSIZE))
      ELSE ClearLow3(get16(h, hdrp(p)))

ftrp(h, p) == p + geth_size(h, p) - WSIZE

next_blkp(h, p) == p + geth_size(h, p)

prev_blkp(h, p) ==
    LET q == p - WSIZE
        size == IF get_large(h, q) = 1
                  THEN ClearLow3(get32(h, q - WSIZE))
                  ELSE ClearLow3(get16(h, q))
    IN  p - size

getf_size(h, p) ==
    IF get_large(h, hdrp(p)) = 1
      THEN ClearLow3(get32(h, ftrp(h, p) - WSIZE))
      ELSE ClearLow3(get16(h, ftrp(h, p)))

setH(h, p, size, prev, alloc) ==
    IF size < LARGE_MIN
      THEN set16(h, hdrp(p), pack16(size, SMALL, prev, alloc))
      ELSE set32(set16(h, hdrp(p), pack16(LARGE_SENTINEL, LARGE, prev, alloc)),
                 p + WSIZE, pack32(size, LARGE, prev, alloc))

(* The second write of setF on a large block: the size word before the footer. *)
setF_size(h, p, size, prev, alloc) ==
    set32(h, ftrp(h, p) - WSIZE, pack32(size, LARGE, prev, alloc))

setF(h, p, size, prev, alloc) ==
    IF h.ub THEN h
    ELSE IF size < LARGE_MIN
      THEN set16(h, ftrp(h, p), pack16(size, SMALL, prev, alloc))
      ELSE setF_size(set16(h, ftrp(h, p), pack16(LARGE_SENTINEL, LARGE, prev, alloc)),
                     p, size, prev, alloc)

(* ------------------------------ list links ----------------------------- *)

get_prev(h, p) == get32(h, p + DSIZE * get_large(h, hdrp(p)))

get_next(h, p) == get32(h, p + WSIZE + DSIZE * get_large(h, hdrp(p)))

set_prev(h, p, val) ==
    IF h.ub THEN h
    ELSE IF ~(in_heap(h, p) /\ in_heap(h, hdrp(p))) THEN UB(h)
    ELSE set32(h, p + DSIZE * get_large(h, hdrp(p)), val)

set_next(h, p, val) ==
    IF h.ub THEN h
    ELSE IF ~(in_heap(h, p) /\ in_heap(h, hdrp(p))) THEN UB(h)
    ELSE set32(h, p + WSIZE + DSIZE * get_large(h, hdrp(p)), val)

(* seg_list is the table of SEGSIZE 32-bit roots at offset 0. *)
seg_list(h, i) == get32(h, i * WSIZE)

set_seg_list(h, i, val) == set32(h, i * WSIZE, val)

(* ----------------------------- free lists ------------------------------ *)

(* The index is a size_t: below 0 stands for the wrapped value, *)
(* which addresses memory outside the root table.               *)
get_index(asize) ==
    IF asize <= 48 THEN (asize \div 8) - 2
    ELSE IF asize <= 72 THEN 5
    ELSE IF asize <= 136 THEN 6
    ELSE IF asize <= 264 THEN 7
    ELSE IF asize <= 520 THEN 8
    ELSE IF asize <= 1032 THEN 9
    ELSE IF asize <= 2056 THEN 10
    ELSE IF asize <= 4104 THEN 11
    ELSE IF asize <= 16392 THEN 12
    ELSE IF asize <= 32774 THEN 13
    ELSE IF asize <= 262152 THEN 14
    ELSE 15

add_free_block(h, ptr) ==
    IF h.ub THEN h
    ELSE
    LET size  == geth_size(h, ptr)
        index == get_index(size)
        last  == seg_list(h, index)
    IN  IF index < 0 THEN UB(h)
        ELSE IF last = 0
          THEN set_next(set_prev(set_seg_list(h, index, ptr), ptr, 0), ptr, 0)
          ELSE LET h1 == set_seg_list(h, index, ptr)
                   h2 == set_prev(h1, ptr, last)
                   h3 == set_next(h2, ptr, 0)
               IN  set_next(h3, last, ptr)

(* remove_free_block, case 1: the new last block of the list ends it. *)
remove_last(h, prev) == IF prev # 0 THEN set_next(h, prev, 0) ELSE h

(* remove_free_block, case 3: the block before ptr is linked to the one after. *)
remove_inner(h, ptr) == set_next(h, get_prev(h, ptr), get_next(h, ptr))

remove_free_block(h, ptr) ==
    IF h.ub THEN h
    ELSE
    LET size  == geth_size(h, ptr)
        index == get_index(size)
        last  == seg_list(h, index)
    IN  IF index < 0 THEN UB(h)
        ELSE IF last = ptr
          THEN remove_last(set_seg_list(h, index, get_prev(h, ptr)), get_prev(h, ptr))
          ELSE IF get_prev(h, ptr) = 0
            THEN set_prev(h, get_next(h, ptr), 0)
            ELSE remove_inner(set_prev(h, get_next(h, ptr), get_prev(h, ptr)), ptr)

(* ------------------------------- coalesce ------------------------------ *)

(* remove_free_block unless the block is the wilderness, which is on no list. *)
unlist(h, p) == IF p # h.wilderness THEN remove_free_block(h, p) ELSE h

(* return prev_blkp(bp), read after the merged block's header and footer are written *)
coalesce_prev(h, bp) == [h EXCEPT !.ret = prev_blkp(h, bp)]

coalesce(h, bp) ==
    IF h.ub THEN h
    ELSE
    LET next       == next_blkp(h, bp)
        prev       == prev_blkp(h, bp)
        prev_alloc == get_palloc(h, hdrp(bp))
        next_alloc == get_alloc(h, hdrp(next))
        size       == geth_size(h, bp)
    IN  IF prev_alloc # 0 /\ next_alloc # 0
          THEN [set_alloc(h, ftrp(h, bp), FREE) EXCEPT !.ret = bp]
        ELSE IF prev_alloc # 0 /\ next_alloc = 0
          THEN [setF(setH(unlist(h, next), bp, size + geth_size(h, next), PALLOC, FREE),
                     bp, size + geth_size(h, next), PALLOC, FREE)
                  EXCEPT !.ret = bp]
        ELSE IF prev_alloc = 0 /\ next_alloc # 0
          THEN coalesce_prev(
                   setF(setH(unlist(h, prev), prev, size + geth_size(h, prev),
                             get_palloc(h, hdrp(prev)), FREE),
                        prev, size + geth_size(h, prev), get_palloc(h, hdrp(prev)), FREE),
                   bp)
        ELSE [setF(setH(unlist(unlist(h, prev), next), prev,
                        size + geth_size(h, prev) + geth_size(h, next), PALLOC, FREE),
                   next, size + geth_size(h, prev) + geth_size(h, next), PALLOC, FREE)
                EXCEPT !.ret = prev]

(* ------------------------------- find_fit ------------------------------ *)

(* uint32_t min = ~0: above every difference of two block sizes. *)
UINT32_MAX == 2147483647

(* Fault: find_fit without its walk over the rest of the list. *)
scan_list_skipped(h, p, asize, min, min_add, fuel) == [min_add |-> min_add, ok |-> TRUE]

(* The while loop of find_fit over the prev links; `fuel` bounds a walk *)
(* that a cyclic list would never end.                                  *)
RECURSIVE scan_list(_, _, _, _, _, _)
scan_list(h, p, asize, min, min_add, fuel) ==
    IF p = 0 THEN [min_add |-> min_add, ok |-> TRUE]
    ELSE IF fuel = 0 \/ ~in_heap(h, p) \/ ~in_heap(h, hdrp(p))
      THEN [min_add |-> NULL, ok |-> FALSE]
    ELSE LET np == get_prev(h, p)
             address_size == geth_size(h, p)
         IN  IF address_size >= asize /\ address_size - asize < min
               THEN scan_list(h, np, asize, address_size - asize, p, fuel - 1)
               ELSE scan_list(h, np, asize, min, min_add, fuel - 1)

(* The block find_fit returns leaves its list. *)
take(h, p) == [remove_free_block(h, p) EXCEPT !.ret = p]

RECURSIVE find_fit_from(_, _, _)

(* The end of one list's walk: r is what scan_list found. *)
find_fit_walked(h, asize, i, r) ==
    IF ~r.ok THEN UB(h)
    ELSE IF r.min_add # NULL THEN take(h, r.min_add)
    ELSE find_fit_from(h, asize, i + 1)

find_fit_from(h, asize, i) ==
    IF i >= SEGSIZE
      THEN IF geth_size(h, h.wilderness) < MINSIZE
                \/ asize <= geth_size(h, h.wilderness) - MINSIZE
             THEN [h EXCEPT !.ret = h.wilderness]
             ELSE [h EXCEPT !.ret = NULL]
    ELSE IF seg_list(h, i) = 0 THEN find_fit_from(h, asize, i + 1)
    ELSE LET address == seg_list(h, i)
             address_size == geth_size(h, address)
             fits == address_size >= asize /\ address_size - asize < UINT32_MAX
         IN  IF ~in_heap(h, address) \/ ~in_heap(h, hdrp(address)) THEN UB(h)
             ELSE IF fits /\ i <= 4 THEN take(h, address)
             ELSE find_fit_walked(h, asize, i,
                      scan_list(h, get_prev(h, address), asize,
                                IF fits THEN address_size - asize ELSE UINT32_MAX,
                                IF fits THEN address ELSE NULL,
                                h.brk \div MINSIZE))

find_fit(h, asize) ==
    IF h.ub THEN h
    ELSE IF get_index(asize) < 0 THEN UB(h)
    ELSE find_fit_from(h, asize, get_index(asize))

(* -------------------------------- place -------------------------------- *)

(* set_palloc(hdrp(next_blkp(bp)), val) *)
set_next_palloc(h, bp, val) == set_palloc(h, hdrp(next_blkp(h, bp)), val)

(* Fault: place listing the split-off block even when it is the wilderness. *)
place_listed_always(h, nb, flag) ==
    IF h.ub THEN h
    ELSE add_free_block([h EXCEPT !.wilderness = IF flag THEN nb ELSE @], nb)

(* Fault: place without its add_free_block of the split-off block. *)
place_listed_nowhere(h, nb, flag) ==
    IF h.ub THEN h ELSE IF ~flag THEN h ELSE [h EXCEPT !.wilderness = nb]

(* place, the remainder nb of a split block: a free block of `rest` bytes, *)
(* listed unless it is the new wilderness.                                 *)
place_listed(h, nb, flag) ==
    IF h.ub THEN h
    ELSE IF ~flag THEN add_free_block(h, nb)
    ELSE [h EXCEPT !.wilderness = nb]

place_remainder(h, nb, rest, flag) ==
    place_listed(set_next_palloc(setF(setH(h, nb, rest, PALLOC, FREE),
                                      nb, rest, PALLOC, FREE),
                                 nb, PFREE),
                 nb, flag)

(* bp = next_blkp(bp), read after the allocated header is written *)
place_split(h, bp, rest, flag) == place_remainder(h, next_blkp(h, bp), rest, flag)

(* csize - asize is a size_t: with csize below asize it wraps, the split *)
(* branch is taken and the remainder's footer lies far outside the heap. *)
place_sized(h, bp, asize, csize, flag) ==
    IF csize < asize THEN UB(h)
    ELSE IF csize - asize >= MINSIZE
      THEN place_split(setH(h, bp, asize, PALLOC, ALLOC), bp, csize - asize, flag)
      ELSE set_next_palloc(setF(setH(h, bp, csize, PALLOC, ALLOC),
                                bp, csize, PALLOC, ALLOC),
                           bp, PALLOC)

place(h, bp, asize) ==
    IF h.ub THEN h
    ELSE place_sized(h, bp, asize, geth_size(h, bp), bp = h.wilderness)

(* ------------------------------ the host ------------------------------- *)

SBRK_ERR == -1

(* mem_sbrk: append incr bytes and return the previous end, or fail. *)
mem_sbrk(h, incr, ok) ==
    IF ok THEN [h EXCEPT !.brk = h.brk + incr, !.ret = h.brk]
    ELSE [h EXCEPT !.ret = SBRK_ERR, !.hostfail = TRUE]

(* ----------------------------- extend_heap ----------------------------- *)

(* setH(heap_end, 0, PFREE, ALLOC): the new epilogue header *)
set_epilogue(h) == setH(h, h.heap_end, 0, PFREE, ALLOC)

extend_heap_end(h, bp) ==
    IF h.ub THEN h ELSE set_epilogue([h EXCEPT !.heap_end = next_blkp(h, bp)])

(* extend_heap once mem_sbrk has returned bp: the new free block, the *)
(* epilogue, and the merge with a free block before it.               *)
extend_heap_block(h, bp, size, a) ==
    coalesce(extend_heap_end(setF(setH(h, bp, size, PALLOC * a, FREE),
                                  bp, size, PALLOC * a, FREE),
                             bp),
             bp)

extend_heap_got(s, size) ==
    IF s.ret = SBRK_ERR THEN [s EXCEPT !.ret = NULL]
    ELSE extend_heap_block(s, s.ret, size, get_alloc(s, hdrp(s.wilderness)))

extend_heap(h, words, ok) ==
    IF h.ub THEN h
    ELSE extend_heap_got(
             mem_sbrk(h, IF words % 2 = 1 THEN (words + 1) * WSIZE ELSE words * WSIZE, ok),
             IF words % 2 = 1 THEN (words + 1) * WSIZE ELSE words * WSIZE)

(* ------------------------------- mm_init ------------------------------- *)

RECURSIVE zero_roots(_, _, _)
zero_roots(h, base, i) ==
    IF i >= SEGSIZE THEN h ELSE zero_roots(set32(h, base + i * WSIZE, 0), base, i + 1)

(* Fault: mm_init without its test of extend_heap's result. *)
mm_init_return_unchecked(e) == IF e.ub THEN e ELSE [e EXCEPT !.ret = 0]

(* mm_init's return: -1 when the first extension failed, 0 otherwise *)
mm_init_return(e) ==
    IF e.ub THEN e
    ELSE IF e.ret = NULL THEN [e EXCEPT !.ret = -1]
    ELSE [e EXCEPT !.ret = 0]

(* The globals once the prologue and the epilogue are written. *)
mm_init_globals(h, hs) ==
    [h EXCEPT !.heap_start = hs, !.heap_end = hs + WSIZE, !.wilderness = hs + WSIZE]

(* mm_init once mem_sbrk has returned hs0: the root table, the alignment *)
(* padding, the prologue and the epilogue, then the first extension.     *)
mm_init_layout(s, hs0, ok2) ==
    mm_init_return(
      extend_heap(
        mm_init_globals(
          setH(setF(setH(set16(zero_roots(s, hs0, 0), hs0 + SEGSIZE * WSIZE, 0),
                         hs0 + SEGSIZE * WSIZE + WSIZE, 0, PFREE, ALLOC),
                    hs0 + SEGSIZE * WSIZE + WSIZE, 0, PFREE, ALLOC),
               hs0 + SEGSIZE * WSIZE + 2 * WSIZE, 0, PALLOC, ALLOC),
          hs0 + SEGSIZE * WSIZE + WSIZE),
        CHUNKSIZE \div WSIZE, ok2))

mm_init_got(s, ok2) ==
    IF s.ret = SBRK_ERR THEN [s EXCEPT !.heap_start = SBRK_ERR, !.ret = -1]
    ELSE mm_init_layout(s, s.ret, ok2)

mm_init(h, ok1, ok2) == mm_init_got(mem_sbrk(h, (2 + SEGSIZE) * WSIZE, ok1), ok2)

(* ----------------------------- public calls ---------------------------- *)

(* Adjusted block size of a request, before the large-block overhead. *)
adjust(size) ==
    LET a == ((size + 1) \div DSIZE) * DSIZE + DSIZE
    IN  IF size <= DSIZE - 2 THEN a + DSIZE ELSE a

(* Fault: the large branch without its `asize += 2*DSIZE`. *)
malloc_asize_bare(size) == adjust(size)

(* The two branches of malloc differ only in asize and the returned offset. *)
malloc_asize(size) ==
    IF adjust(size) >= LARGE_MIN THEN adjust(size) + 2 * DSIZE ELSE adjust(size)

(* Fault: the large branch returning bp + WSIZE instead of bp + DSIZE. *)
malloc_shift_word(size) == IF adjust(size) >= LARGE_MIN THEN WSIZE ELSE 0

malloc_shift(size) == IF adjust(size) >= LARGE_MIN THEN DSIZE ELSE 0

(* place(bp, asize) and the pointer malloc returns for it *)
malloc_place(h, bp, size, asize) ==
    [place(h, bp, asize) EXCEPT !.ret = bp + malloc_shift(size)]

(* Fault: malloc asking extend_heap for one chunk whatever the request. *)
malloc_extendsize_chunk(h, asize) == CHUNKSIZE

(* The bytes malloc asks of extend_heap when no block fits. *)
malloc_extendsize(h, asize) ==
    LET wild  == geth_size(h, h.wilderness)
        nsize == IF wild >= MINSIZE /\ asize >= wild - MINSIZE
                   THEN asize - (wild - MINSIZE) ELSE asize
    IN  IF nsize > CHUNKSIZE THEN nsize ELSE CHUNKSIZE

(* malloc after extend_heap returned *)
malloc_extended(e, size, asize) ==
    IF e.ub THEN e
    ELSE IF e.ret = NULL THEN e
    ELSE malloc_place(e, e.ret, size, asize)

(* malloc after find_fit returned *)
malloc_found(f, size, asize, ok) ==
    IF f.ub THEN f
    ELSE IF f.ret # NULL THEN malloc_place(f, f.ret, size, asize)
    ELSE malloc_extended(extend_heap(f, malloc_extendsize(f, asize) \div WSIZE, ok),
                         size, asize)

(* Fault: malloc without its `if (size == 0) return NULL`. *)
malloc_serving_zero(h, size, ok) ==
    IF h.ub THEN h
    ELSE malloc_found(find_fit(h, malloc_asize(size)), size, malloc_asize(size), ok)

malloc(h, size, ok) ==
    IF h.ub THEN h
    ELSE IF size = 0 THEN [h EXCEPT !.ret = NULL]
    ELSE malloc_found(find_fit(h, malloc_asize(size)), size, malloc_asize(size), ok)

(* free, the end: the merged block is the wilderness or goes on a list. *)
free_listed(h) == set_next_palloc(h, h.ret, PFREE)

free_list(c, flag) ==
    IF c.ub THEN c
    ELSE IF flag THEN [c EXCEPT !.wilderness = c.ret]
    ELSE free_listed(add_free_block(c, c.ret))

(* flag of free: the block before a free wilderness *)
(* Fault: free without its test for the block before the wilderness. *)
free_flag_never(h, ptr) == FALSE

free_flag(h, ptr) ==
    get_palloc(h, hdrp(h.wilderness)) = PFREE /\ ptr = prev_blkp(h, h.wilderness)

free_coalesce(h, ptr) == free_list(coalesce(h, ptr), free_flag(h, ptr))

(* free of the block at ptr, whose size and prev-alloc bit were read *)
free_block(h, ptr, size, pr) ==
    free_coalesce(set_next_palloc(setF(setH(h, ptr, size, pr, FREE),
                                       ptr, size, pr, FREE),
                                  ptr, PFREE),
                  ptr)

free_at(h, ptr) == free_block(h, ptr, geth_size(h, ptr), get_palloc(h, hdrp(ptr)))

free(h, ptr0) ==
    IF h.ub THEN h
    ELSE IF ptr0 = NULL THEN h
    ELSE free_at(h, IF get_large(h, hdrp(ptr0)) # 0 THEN ptr0 - DSIZE ELSE ptr0)

(* memcpy of n bytes between two ranges of the heap. *)
memcpy(h, dst, src, n) ==
    IF h.ub \/ n = 0 THEN h
    ELSE IF ~(in_heap(h, dst) /\ in_heap(h, dst + n - 1)
              /\ in_heap(h, src) /\ in_heap(h, src + n - 1))
           \/ (dst < src + n /\ src < dst + n)
      THEN UB(h)
    ELSE LET m    == h.mem
             keep == {a \in DOMAIN m : a < dst \/ a >= dst + n}
             new  == {dst + (b - src) : b \in {a \in DOMAIN m : a >= src /\ a < src + n}}
         IN  [h EXCEPT !.mem = [a \in keep \cup new |->
                                   IF a \in new THEN m[a - dst + src] ELSE m[a]]]

(* memset of n bytes to the byte value c. *)
memset(h, p, c, n) ==
    IF h.ub \/ n = 0 THEN h
    ELSE IF ~(in_heap(h, p) /\ in_heap(h, p + n - 1)) THEN UB(h)
    ELSE LET m    == h.mem
             keep == {a \in DOMAIN m : a < p \/ a >= p + n}
         IN  IF c = h.fill
               THEN [h EXCEPT !.mem = [a \in keep |-> m[a]]]
               ELSE [h EXCEPT !.mem = [a \in keep \cup (p .. (p + n - 1)) |->
                                          IF a >= p /\ a < p + n THEN c ELSE m[a]]]

(* geth_size(..) - k is a size_t: below k it wraps to a value above every size. *)
capped(size, g, k) == IF g < k THEN size ELSE IF size < g - k THEN size ELSE g - k

(* oldsize of realloc: the bytes it copies *)
realloc_oldsize(h, oldptr, size) ==
    IF get_large(h, hdrp(oldptr)) # 0
      THEN capped(size, geth_size(h, oldptr - DSIZE), 18)
      ELSE capped(size, geth_size(h, oldptr), 2)

realloc_copy(h, newptr, oldptr, oldsize) ==
    [free(memcpy(h, newptr, oldptr, oldsize), oldptr) EXCEPT !.ret = newptr]

(* Fault: realloc giving up the old block when the new one cannot be had. *)
realloc_freeing_on_failure(m, oldptr, size) ==
    IF m.ub THEN m
    ELSE IF m.ret = NULL THEN [free(m, oldptr) EXCEPT !.ret = NULL]
    ELSE realloc_copy(m, m.ret, oldptr, realloc_oldsize(m, oldptr, size))

(* realloc after malloc returned *)
realloc_move(m, oldptr, size) ==
    IF m.ub THEN m
    ELSE IF m.ret = NULL THEN m
    ELSE realloc_copy(m, m.ret, oldptr, realloc_oldsize(m, oldptr, size))

(* Fault: realloc whose size 0 returns NULL and keeps the block. *)
realloc_keeping_on_zero(h, oldptr, size, ok) ==
    IF h.ub THEN h
    ELSE IF size = 0 THEN [h EXCEPT !.ret = NULL]
    ELSE IF oldptr = NULL THEN malloc(h, size, ok)
    ELSE realloc_move(malloc(h, size, ok), oldptr, size)

realloc(h, oldptr, size, ok) ==
    IF h.ub THEN h
    ELSE IF size = 0 THEN [free(h, oldptr) EXCEPT !.ret = NULL]
    ELSE IF oldptr = NULL THEN malloc(h, size, ok)
    ELSE realloc_move(malloc(h, size, ok), oldptr, size)

(* calloc after malloc returned: memset(newptr, 0, bytes) whatever newptr is *)
calloc_set(m, bytes) ==
    IF m.ub THEN m
    ELSE IF m.ret = NULL THEN (IF bytes = 0 THEN m ELSE UB(m))
    ELSE memset(m, m.ret, 0, bytes)

calloc(h, nmemb, size, ok) ==
    IF h.ub THEN h ELSE calloc_set(malloc(h, nmemb * size, ok), nmemb * size)

(* ------------------------------ the state ------------------------------ *)

VARIABLES
    mem,         \* the heap's bytes that differ from fill
    fill,        \* the byte the host's arena holds where nothing was written
    brk,         \* size of the heap: mem_heap_hi() + 1 - mem_heap_lo()
    heap_start,  \* the globals of mm.c
    heap_end,
    wilderness,
    ub,          \* a call left defined behaviour (out-of-heap access, endless walk)
    phase,       \* "boot" before mm_init, "ready" after it returned 0, "failed" after -1
    workload,    \* the request sizes the caller draws from
    live,        \* the caller's allocations: returned pointer -> requested size, written?
    calls,       \* number of public calls made
    last,        \* the most recent public call, its arguments and result
    snap         \* the block sequence before a malloc, kept until the call after it

vars == <<mem, fill, brk, heap_start, heap_end, wilderness, ub, phase, workload,
          live, calls, last, snap>>

(* The heap record the operators work on. *)
Heap ==
    [mem |-> mem, fill |-> fill, brk |-> brk, heap_start |-> heap_start,
     heap_end |-> heap_end, wilderness |-> wilderness, ub |-> ub,
     ret |-> NULL, hostfail |-> FALSE]

Commit(r) ==
    /\ mem' = r.mem
    /\ brk' = r.brk
    /\ heap_start' = r.heap_start
    /\ heap_end' = r.heap_end
    /\ wilderness' = r.wilderness
    /\ ub' = r.ub
    /\ UNCHANGED fill

(* ------------------------------ workloads ------------------------------ *)

SmallSizes == {0, 1, 40, 80}
LargeSizes == {0, 1, 65529}
MergeSizes == {40, 32760, 32764, 65521, 65524}
BoundarySizes == {1, 65526, 65527, 65528, 65529}
ChurnSizes == {40, 80, 100}
Fills == {0, 255}

(* The workload of growing requests: a caller whose every request is larger *)
(* than its last one.                                                       *)
Growing(w) == w \subseteq MergeSizes

(* The sizes left to the caller after a request of n bytes. *)
Grow(w, n) == IF Growing(w) THEN {s \in w : s > n} ELSE w

(* Number of calls a workload makes. *)
Budget(w) ==
    IF Growing(w) THEN MergeCalls ELSE IF w = ChurnSizes THEN ChurnCalls ELSE MaxCalls

(* Number of allocations a workload holds at once. *)
Room(w) == IF w = ChurnSizes THEN ChurnLive ELSE MaxLive

(* What the host's extension primitive may answer: TRUE is success. *)
HostOutcomes(w) == IF Growing(w) \/ w = ChurnSizes THEN {TRUE} ELSE BOOLEAN

(* Requests of zeroed_allocate: nmemb, size. *)
Nmemb == {0, 1, 2}
CallocSizes(w) == {n \in w : n > 0 /\ n <= 40}

(* ----------------------- heap walk (as mm_checkheap) -------------------- *)

(* The blocks from the first one after the prologue up to the first header *)
(* of size 0, as the loop of mm_checkheap visits them.                     *)
RECURSIVE walk(_, _, _)
walk(h, bp, fuel) ==
    IF fuel = 0 \/ ~in_heap(h, hdrp(bp)) \/ geth_size(h, bp) = 0 THEN <<>>
    ELSE <<bp>> \o walk(h, next_blkp(h, bp), fuel - 1)

Blocks(h) == walk(h, h.heap_start + WSIZE, h.brk \div DSIZE)

(* size and allocation bit of every block, in address order *)
Topology(h) ==
    LET b == Blocks(h)
    IN  [i \in 1..Len(b) |-> <<geth_size(h, b[i]), get_alloc(h, hdrp(b[i]))>>]

NoCall == [op |-> "none", p |-> NULL, n |-> 0, ret |-> NULL, hostfail |-> FALSE, dup |-> FALSE]
NoSnap == [p |-> NULL, n |-> 0, topo |-> <<>>]

(* -------------------------------- actions ------------------------------ *)

Init ==
    /\ mem = <<>>
    /\ fill \in Fills
    /\ brk = 0
    /\ heap_start = NULL
    /\ heap_end = NULL
    /\ wilderness = NULL
    /\ ub = FALSE
    /\ phase = "boot"
    /\ workload \in {SmallSizes, LargeSizes}
    /\ live = <<>>
    /\ calls = 0
    /\ last = NoCall
    /\ snap = NoSnap

MmInitReturns(r) ==
    /\ Commit(r)
    /\ phase' = IF r.ret = 0 THEN "ready" ELSE "failed"
    /\ last' = [NoCall EXCEPT !.op = "mm_init", !.ret = r.ret, !.hostfail = r.hostfail]

MmInit(ok1, ok2) ==
    /\ phase = "boot"
    /\ MmInitReturns(mm_init(Heap, ok1, ok2))
    /\ UNCHANGED <<live, calls, snap, workload>>

CanCall == phase = "ready" /\ ~ub /\ calls < Budget(workload)

Without(f, p) == [x \in DOMAIN f \ {p} |-> f[x]]
With(f, p, v) == [x \in DOMAIN f \cup {p} |-> IF x = p THEN v ELSE f[x]]

HasRoom == Cardinality(DOMAIN live) < Room(workload)

(* The caller's books after a call returned the heap record r. *)
MallocReturns(n, ok, r) ==
    /\ Commit(r)
    /\ ok \/ r.hostfail
    /\ last' = [op |-> "malloc", p |-> NULL, n |-> n, ret |-> r.ret,
                hostfail |-> r.hostfail,
                dup |-> ~r.ub /\ r.ret \in DOMAIN live]
    /\ live' = IF r.ub \/ r.ret = NULL THEN live
               ELSE With(live, r.ret, [n |-> n, w |-> FALSE])
    /\ snap' = IF r.ub \/ r.ret = NULL THEN NoSnap
               ELSE [p |-> r.ret, n |-> n, topo |-> Topology(Heap)]

Malloc(n, ok) ==
    /\ CanCall /\ HasRoom
    /\ MallocReturns(n, ok, malloc(Heap, n, ok))
    /\ calls' = calls + 1
    /\ workload' = Grow(workload, n)
    /\ UNCHANGED phase

FreeReturns(p, r) ==
    /\ Commit(r)
    /\ last' = [op |-> "free", p |-> p, n |-> 0, ret |-> NULL,
                hostfail |-> r.hostfail, dup |-> FALSE]
    /\ live' = IF p = NULL THEN live ELSE Without(live, p)
    /\ snap' = IF snap.p = p /\ p # NULL /\ last.op = "malloc" THEN snap ELSE NoSnap

Free(p) ==
    /\ CanCall
    /\ FreeReturns(p, free(Heap, p))
    /\ calls' = calls + 1
    /\ UNCHANGED <<phase, workload>>

(* The allocations left when realloc(p, n) returned ret. *)
Kept(p, n, ret) ==
    IF p # NULL /\ (n = 0 \/ ret # NULL) THEN Without(live, p) ELSE live

ReallocReturns(p, n, ok, r) ==
    /\ Commit(r)
    /\ ok \/ r.hostfail
    /\ last' = [op |-> "realloc", p |-> p, n |-> n, ret |-> r.ret,
                hostfail |-> r.hostfail,
                dup |-> ~r.ub /\ r.ret \in DOMAIN Kept(p, n, r.ret)]
    /\ live' = IF r.ub THEN live
               ELSE IF r.ret = NULL THEN Kept(p, n, r.ret)
               ELSE With(Kept(p, n, r.ret), r.ret,
                         [n |-> n, w |-> IF p = NULL THEN FALSE ELSE live[p].w])

Realloc(p, n, ok) ==
    /\ CanCall
    /\ p # NULL \/ HasRoom
    /\ ReallocReturns(p, n, ok, realloc(Heap, p, n, ok))
    /\ calls' = calls + 1
    /\ workload' = Grow(workload, n)
    /\ UNCHANGED phase
    /\ snap' = NoSnap

CallocReturns(nmemb, size, ok, r) ==
    /\ Commit(r)
    /\ ok \/ r.hostfail
    /\ last' = [op |-> "calloc", p |-> NULL, n |-> nmemb * size, ret |-> r.ret,
                hostfail |-> r.hostfail,
                dup |-> ~r.ub /\ r.ret \in DOMAIN live]
    /\ live' = IF r.ub \/ r.ret = NULL THEN live
               ELSE With(live, r.ret, [n |-> nmemb * size, w |-> FALSE])

Calloc(nmemb, size, ok) ==
    /\ CanCall /\ HasRoom
    /\ CallocReturns(nmemb, size, ok, calloc(Heap, nmemb, size, ok))
    /\ calls' = calls + 1
    /\ workload' = Grow(workload, size)
    /\ UNCHANGED phase
    /\ snap' = NoSnap

(* The caller writes into the allocation it was just handed: bytes 0, 4..7 and n-1. *)
UserOffsets(n) == {i \in {0, 4, 5, 6, 7, n - 1} : i >= 0 /\ i < n}
UserByte(i) == 161 + (i % 7)

RECURSIVE store(_, _, _, _)
store(m, f, p, offs) ==
    IF offs = {} THEN m
    ELSE LET i == CHOOSE x \in offs : TRUE
         IN  store(WrB(m, f, p + i, UserByte(i)), f, p, offs \ {i})

UserWrite(p) ==
    /\ phase = "ready" /\ ~ub
    /\ p \in DOMAIN live
    /\ last.ret = p
    /\ ~live[p].w
    /\ mem' = store(mem, fill, p, UserOffsets(live[p].n))
    /\ live' = [live EXCEPT ![p].w = TRUE]
    /\ last' = [NoCall EXCEPT !.op = "write", !.p = p]
    /\ UNCHANGED <<fill, brk, heap_start, heap_end, wilderness, ub, phase, workload,
                   calls, snap>>

Next ==
    \/ \E ok1, ok2 \in BOOLEAN : MmInit(ok1, ok2)
    \/ \E n \in workload, ok \in HostOutcomes(workload) : Malloc(n, ok)
    \/ \E p \in DOMAIN live \cup {NULL} : Free(p)
    \/ \E p \in DOMAIN live \cup {NULL}, n \in workload, ok \in HostOutcomes(workload) :
          Realloc(p, n, ok)
    \/ \E nmemb \in Nmemb, size \in CallocSizes(workload), ok \in HostOutcomes(workload) :
          Calloc(nmemb, size, ok)
    \/ \E p \in DOMAIN live : UserWrite(p)

Spec == Init /\ [][Next]_vars

(* The same program under the workload of growing requests, whose frees *)
(* merge two compact blocks into one block of 65536 bytes.              *)
InitMerge ==
    /\ mem = <<>>
    /\ fill = 255
    /\ brk = 0
    /\ heap_start = NULL
    /\ heap_end = NULL
    /\ wilderness = NULL
    /\ ub = FALSE
    /\ phase = "boot"
    /\ workload = MergeSizes
    /\ live = <<>>
    /\ calls = 0
    /\ last = NoCall
    /\ snap = NoSnap

SpecMerge == InitMerge /\ [][Next]_vars

(* The same program under requests at the edge of the compact encoding. *)
InitBoundary ==
    /\ mem = <<>>
    /\ fill \in Fills
    /\ brk = 0
    /\ heap_start = NULL
    /\ heap_end = NULL
    /\ wilderness = NULL
    /\ ub = FALSE
    /\ phase = "boot"
    /\ workload = BoundarySizes
    /\ live = <<>>
    /\ calls = 0
    /\ last = NoCall
    /\ snap = NoSnap

SpecBoundary == InitBoundary /\ [][Next]_vars

(* The same program under a caller that only allocates and frees, for more *)
(* calls and with more allocations held at once.                           *)
InitChurn ==
    /\ mem = <<>>
    /\ fill = 255
    /\ brk = 0
    /\ heap_start = NULL
    /\ heap_end = NULL
    /\ wilderness = NULL
    /\ ub = FALSE
    /\ phase = "boot"
    /\ workload = ChurnSizes
    /\ live = <<>>
    /\ calls = 0
    /\ last = NoCall
    /\ snap = NoSnap

NextChurn ==
    \/ \E ok1, ok2 \in BOOLEAN : MmInit(ok1, ok2)
    \/ \E n \in workload, ok \in HostOutcomes(workload) : Malloc(n, ok)
    \/ \E p \in DOMAIN live \cup {NULL} : Free(p)

SpecChurn == InitChurn /\ [][NextChurn]_vars

(* ------------------------- properties of the allocator -------------------*)

(* Byte ranges [lo, hi) *)
Overlap(lo1, hi1, lo2, hi2) == lo1 < hi2 /\ lo2 < hi1

Live == DOMAIN live

(* The headers the heap holds: of the prologue, of every block, of the epilogue. *)
HeaderOwners(h) ==
    {h.heap_start, h.heap_end} \cup {Blocks(h)[i] : i \in 1..Len(Blocks(h))}

MetaFree(h, p, n) ==
    /\ ~Overlap(p, p + n, 0, SEGSIZE * WSIZE)
    /\ \A b \in HeaderOwners(h) :
          /\ ~Overlap(p, p + n, hdrp(b), b)
          /\ get_large(h, hdrp(b)) = 1 => ~Overlap(p, p + n, b + WSIZE, b + DSIZE)

(* C1: every live allocation's bytes [p, p+n) lie inside the heap, apart from *)
(* every other live allocation, from every block's header word and extended   *)
(* size word, and from the table of list roots.                               *)
C1_PayloadsApart ==
    phase = "ready" =>
      /\ ~last.dup
      /\ \A p \in Live :
            /\ p >= 0 /\ p + live[p].n <= brk
            /\ \A q \in Live \ {p} : ~Overlap(p, p + live[p].n, q, q + live[q].n)
            /\ MetaFree(Heap, p, live[p].n)

(* The place of C1's case: a block with the large encoding handed out whole *)
(* by the compact branch of malloc.                                         *)
C1_WholeLargeHandedOut ==
    /\ phase = "ready" /\ ~ub
    /\ last.op = "malloc" /\ last.ret # NULL
    /\ malloc_shift(last.n) = 0
    /\ get_large(Heap, hdrp(last.ret)) = 1

(* C2: every non-null pointer allocate returns is a multiple of 8 away from *)
(* the heap's low address, on the compact and on the large path.            *)
C2_Aligned ==
    (phase = "ready" /\ ~ub /\ last.op = "malloc" /\ last.ret # NULL)
        => last.ret % DSIZE = 0

C2_Witness ==
    /\ phase = "ready" /\ ~ub
    /\ last.op = "malloc" /\ last.ret # NULL
    /\ malloc_shift(last.n) = DSIZE
    /\ Cardinality(Live) >= 2

(* What a call may not touch when it is to leave the heap as it was. *)
HeapVars == <<mem, brk, heap_start, heap_end, wilderness, ub>>

(* C3: when the host's extension fails during allocate or reallocate, the *)
(* call returns null and leaves every byte of the heap, the wilderness    *)
(* pointer and the bounds as they were; the block handed to reallocate    *)
(* stays allocated to the caller.                                         *)
C3_FailedExtensionLeavesHeap ==
    [][ (last'.op \in {"malloc", "realloc"} /\ last'.hostfail)
          => /\ last'.ret = NULL
             /\ HeapVars' = HeapVars
             /\ live' = live
             /\ (last'.op = "realloc" /\ last'.p # NULL)
                   => get_alloc(Heap', hdrp(last'.p)) = ALLOC ]_vars

C3_Witness ==
    /\ last.op = "realloc" /\ last.hostfail /\ last.p # NULL
    /\ last.p \in Live /\ live[last.p].w

(* The bytes of [lo, lo+n) in the heap before a step, against [lo2, lo2+n) after it. *)
SameBytes(lo, lo2, n) ==
    /\ \A a \in DOMAIN mem : (a >= lo /\ a < lo + n) => RdB(Heap', a - lo + lo2) = mem[a]
    /\ \A a \in DOMAIN mem' : (a >= lo2 /\ a < lo2 + n) => RdB(Heap, a - lo2 + lo) = mem'[a]

(* p lies in a block that the heap walk finds free *)
InFreeBlock(h, p) ==
    \E i \in 1..Len(Blocks(h)) :
        LET b == Blocks(h)[i]
        IN  /\ hdrp(b) <= p /\ p < hdrp(b) + geth_size(h, b)
            /\ get_alloc(h, hdrp(b)) = FREE

Min(a, b) == IF a < b THEN a ELSE b

(* C4: q = reallocate(p, n), p non-null, n > 0, the allocation succeeding: the *)
(* first min(n, m) bytes at q are those that were at p, and the block that     *)
(* held p is free afterwards.                                                  *)
C4_ReallocCopiesAndFrees ==
    [][ (last'.op = "realloc" /\ last'.p # NULL /\ last'.n > 0 /\ last'.ret # NULL)
          => /\ SameBytes(last'.p, last'.ret, Min(last'.n, live[last'.p].n))
             /\ InFreeBlock(Heap', last'.p) ]_vars

(* Two block sequences that agree but for the size of the last, free block. *)
SameUpToWilderness(t1, t2) ==
    /\ Len(t1) = Len(t2) /\ Len(t1) > 0
    /\ \A i \in 1..(Len(t1) - 1) : t1[i] = t2[i]
    /\ t1[Len(t1)][2] = FREE /\ t2[Len(t2)][2] = FREE
    /\ t2[Len(t2)][1] >= t1[Len(t1)][1]

Roots(h) == [i \in 0..(SEGSIZE - 1) |-> seg_list(h, i)]
EmptyRoots == [i \in 0..(SEGSIZE - 1) |-> 0]

FreedJustAllocated ==
    phase = "ready" /\ last.op = "free" /\ snap.p # NULL /\ last.p = snap.p

(* C5: p = allocate(n) followed at once by free(p) restores the sequence of  *)
(* blocks but for a grown wilderness; from the state after mm_init, n = 40   *)
(* ends in the block layout, bounds, wilderness and roots of that state.     *)
C5_AllocFreeRestores ==
    FreedJustAllocated =>
      /\ SameUpToWilderness(snap.topo, Topology(Heap))
      /\ (calls = 2 /\ snap.n = 40 /\ snap.topo = <<<<CHUNKSIZE, FREE>>>>)
            => /\ Topology(Heap) = snap.topo
               /\ brk = (2 + SEGSIZE) * WSIZE + CHUNKSIZE
               /\ wilderness = (2 + SEGSIZE) * WSIZE
               /\ Roots(Heap) = EmptyRoots

FreeBlocks(h) == {i \in 1..Len(Blocks(h)) : get_alloc(h, hdrp(Blocks(h)[i])) = FREE}

AllFreed == phase = "ready" /\ calls > 0 /\ Live = {} /\ last.op \in {"free", "realloc"}

(* C6: once every live allocation has been freed, the heap holds exactly one *)
(* free block, the wilderness, and all 16 lists are empty.                   *)
C6_AllFreedOneBlock ==
    AllFreed =>
      /\ Cardinality(FreeBlocks(Heap)) = 1
      /\ \A i \in FreeBlocks(Heap) : Blocks(Heap)[i] = wilderness
      /\ Roots(Heap) = EmptyRoots

IsCall(op) == op \in {"malloc", "free", "realloc", "calloc"}

(* C7: a call changes no payload byte of a live allocation other than the one *)
(* handed to free or reallocate.                                              *)
C7_OtherPayloadsKept ==
    [][ IsCall(last'.op)
          => \A q \in Live \ {last'.p} : SameBytes(q, q, live[q].n) ]_vars

(* C8: when the host's extension fails under zeroed_allocate, the call returns *)
(* null without writing memory.                                                *)
C8_CallocFailureReturnsNull ==
    [][ (last'.op = "calloc" /\ last'.hostfail)
          => /\ ~ub'
             /\ last'.ret = NULL
             /\ mem' = mem ]_vars

(* C9: allocate(0) returns null, free(null) returns, and neither changes a *)
(* byte of the heap, the wilderness pointer or the bounds.                 *)
C9_NullCallsChangeNothing ==
    [][ ((last'.op = "malloc" /\ last'.n = 0) \/ (last'.op = "free" /\ last'.p = NULL))
          => /\ last'.ret = NULL
             /\ HeapVars' = HeapVars
             /\ live' = live ]_vars

C9_Witness ==
    /\ Live # {}
    /\ Roots(Heap) # EmptyRoots
    /\ (last.op = "malloc" /\ last.n = 0) \/ (last.op = "free" /\ last.p = NULL)

(* The heap a call leaves, as the operators return it. *)
Left(r) == <<r.mem, r.brk, r.heap_start, r.heap_end, r.wilderness, r.ub>>

(* C10: reallocate(p, 0) returns null and leaves the heap as free(p) does;     *)
(* reallocate(null, n) returns the pointer and leaves the heap as allocate(n). *)
C10_ReallocDegenerateCases ==
    [][ /\ (last'.op = "realloc" /\ last'.n = 0)
            => /\ last'.ret = NULL
               /\ HeapVars' = Left(free(Heap, last'.p))
        /\ (last'.op = "realloc" /\ last'.p = NULL /\ last'.n > 0)
            => /\ last'.ret = malloc(Heap, last'.n, ~last'.hostfail).ret
               /\ HeapVars' = Left(malloc(Heap, last'.n, ~last'.hostfail)) ]_vars

C10_Witness ==
    /\ last.op = "realloc" /\ ~ub
    /\ \/ last.n = 0 /\ last.p # NULL /\ Roots(Heap) # EmptyRoots
       \/ last.p = NULL /\ last.n > 0 /\ last.ret # NULL /\ Cardinality(Live) >= 2

(* C11: mm_init returns 0 when both extensions of the host succeed and -1  *)
(* when one fails; on success the 16 roots are 0 and the heap holds one real *)
(* block, free, of 192 bytes, the wilderness, between a prologue of size 0,  *)
(* allocated, and an epilogue header of size 0, allocated, at the heap's end. *)
C11_InitLayout ==
    last.op = "mm_init" =>
      /\ last.ret = (IF last.hostfail THEN -1 ELSE 0)
      /\ phase = (IF last.hostfail THEN "failed" ELSE "ready")
      /\ last.ret = 0 =>
            /\ ~ub
            /\ Roots(Heap) = EmptyRoots
            /\ Blocks(Heap) = <<wilderness>>
            /\ Topology(Heap) = <<<<CHUNKSIZE, FREE>>>>
            /\ getf_size(Heap, wilderness) = CHUNKSIZE
            /\ geth_size(Heap, heap_start) = 0
            /\ get_alloc(Heap, hdrp(heap_start)) = ALLOC
            /\ wilderness = heap_start + WSIZE
            /\ next_blkp(Heap, wilderness) = heap_end
            /\ heap_end = brk
            /\ geth_size(Heap, heap_end) = 0
            /\ get_alloc(Heap, hdrp(heap_end)) = ALLOC

C11_Witness == last.op = "mm_init" /\ last.ret = 0 /\ fill = 255

(* The blocks of the heap walk whose bytes hold the address p. *)
Holding(h, p) ==
    {b \in {Blocks(h)[i] : i \in 1..Len(Blocks(h))} :
        hdrp(b) <= p /\ p < hdrp(b) + geth_size(h, b)}

Served == phase = "ready" /\ ~ub /\ last.op = "malloc" /\ last.ret # NULL

FreeAndConsistent(h, b) ==
    /\ get_alloc(h, hdrp(b)) = FREE
    /\ get_alloc(h, ftrp(h, b)) = FREE
    /\ getf_size(h, b) = geth_size(h, b)
    /\ get_large(h, ftrp(h, b)) = get_large(h, hdrp(b))
    /\ (get_large(h, hdrp(b)) = 1) <=> (geth_size(h, b) >= LARGE_MIN)

(* C13: free(p) frees the block at p - 8 when allocate placed p in a large   *)
(* block and the block at p when it placed p in a compact one; afterwards    *)
(* that block is free, its size and large bit the same in header and footer. *)
C13_FreeFindsBlock ==
    [][ (last'.op = "free" /\ last'.p # NULL)
          => /\ ~ub'
             /\ \E b \in Holding(Heap', last'.p - malloc_shift(live[last'.p].n)) :
                    FreeAndConsistent(Heap', b) ]_vars

(* C14: the pointer allocate returns is bp + 8 exactly when the block it    *)
(* placed at bp has the large encoding and bp exactly when it has the       *)
(* compact one, a free block taken whole included.                          *)
C14_ShiftMatchesEncoding ==
    Served =>
      \E b \in Holding(Heap, last.ret) :
          last.ret = b + DSIZE * get_large(Heap, hdrp(b))

(* --------------------- the heap between public calls -------------------- *)

AfterCall == phase = "ready" /\ last.op # "write"

BlockSet(h) == {Blocks(h)[i] : i \in 1..Len(Blocks(h))}

(* Where the heap walk stops: the first header of size 0 after the prologue. *)
WalkEnd(h) ==
    IF Len(Blocks(h)) = 0 THEN h.heap_start + WSIZE
    ELSE next_blkp(h, Blocks(h)[Len(Blocks(h))])

Bracketed(h) ==
    /\ geth_size(h, h.heap_start) = 0
    /\ get_alloc(h, hdrp(h.heap_start)) = ALLOC
    /\ \A b \in BlockSet(h) : geth_size(h, b) >= MINSIZE /\ geth_size(h, b) % DSIZE = 0
    /\ WalkEnd(h) = h.heap_end
    /\ h.heap_end = h.brk
    /\ geth_size(h, h.heap_end) = 0
    /\ get_alloc(h, hdrp(h.heap_end)) = ALLOC

(* C15: after every public call the walk from the first block by             *)
(* next(b) = b + size(b) visits only blocks of size >= 16 divisible by 8 and *)
(* ends at the epilogue header at the heap's end, of size 0 and allocated;   *)
(* the prologue has size 0 and is allocated.                                 *)
C15_WalkEndsAtEpilogue == AfterCall => (~ub /\ Bracketed(Heap))

(* The blocks in address order, with the prologue before and the epilogue after. *)
Row(h) == <<h.heap_start>> \o Blocks(h) \o <<WalkEnd(h)>>

PallocTracksAlloc(h) ==
    \A i \in 1..(Len(Row(h)) - 1) :
        get_palloc(h, hdrp(Row(h)[i + 1])) = PALLOC * get_alloc(h, hdrp(Row(h)[i]))

(* C16: after every public call, for every pair of adjacent blocks (a, b),   *)
(* prologue and epilogue included, the predecessor-allocation bit of b's     *)
(* header equals the allocation bit of a.                                    *)
C16_PallocTracksAlloc == AfterCall => (~ub /\ PallocTracksAlloc(Heap))

NoFreeNeighbours(h) ==
    \A i \in 1..(Len(Blocks(h)) - 1) :
        ~(get_alloc(h, hdrp(Blocks(h)[i])) = FREE /\ get_alloc(h, hdrp(Blocks(h)[i + 1])) = FREE)

(* C17: after every public call no two address-adjacent blocks are both free. *)
C17_NoFreeNeighbours == AfterCall => (~ub /\ NoFreeNeighbours(Heap))

(* A segregated list as mm_checkheap follows it: from the root by get_prev. *)
RECURSIVE chain(_, _, _)
chain(h, p, fuel) ==
    IF p = 0 \/ fuel = 0 \/ ~in_heap(h, p) \/ ~in_heap(h, hdrp(p)) THEN <<>>
    ELSE <<p>> \o chain(h, get_prev(h, p), fuel - 1)

Members(h, i) == chain(h, seg_list(h, i), h.brk \div MINSIZE + 1)

(* The places <<list, position>> at which the block b is listed. *)
Listings(h, b) ==
    UNION {{<<i, k>> : k \in {j \in 1..Len(Members(h, i)) : Members(h, i)[j] = b}} :
              i \in 0..(SEGSIZE - 1)}

RECURSIVE ListedCount(_, _)
ListedCount(h, i) ==
    IF i >= SEGSIZE THEN 0 ELSE Len(Members(h, i)) + ListedCount(h, i + 1)

FreeSet(h) == {b \in BlockSet(h) : get_alloc(h, hdrp(b)) = FREE}

ListsHoldFreeBlocks(h) ==
    /\ \A b \in FreeSet(h) \ {h.wilderness} :
          /\ Cardinality(Listings(h, b)) = 1
          /\ \A x \in Listings(h, b) : x[1] = get_index(geth_size(h, b))
    /\ \A i \in 0..(SEGSIZE - 1) :
          \A k \in 1..Len(Members(h, i)) : Members(h, i)[k] \in FreeSet(h)
    /\ Cardinality(FreeSet(h)) = 1 + ListedCount(h, 0)

(* C18: after every public call every free block but the wilderness is on   *)
(* exactly one list, once, the list of bin(size(b)); every list member is a *)
(* free block of the heap; the heap walk finds one free block more than the *)
(* 16 lists hold.                                                           *)
C18_ListsHoldFreeBlocks == AfterCall => (~ub /\ ListsHoldFreeBlocks(Heap))

(* One list: ends within the heap's blocks, and its links answer each other. *)
Chained(h, i) ==
    LET m == Members(h, i)
    IN  /\ seg_list(h, i) # 0 => Len(m) > 0
        /\ Len(m) > 0 =>
              /\ Len(m) <= h.brk \div MINSIZE
              /\ get_next(h, m[1]) = 0
              /\ get_prev(h, m[Len(m)]) = 0
        /\ \A k \in 1..(Len(m) - 1) : get_next(h, m[k + 1]) = m[k]
        /\ \A j, k \in 1..Len(m) : m[j] = m[k] => j = k

(* C19: after every public call each list is a finite acyclic doubly linked *)
(* chain: the next link of the block at the root is 0, for every link a->b  *)
(* the back-link of b is a, and the prev links from the root reach 0.       *)
C19_ListsAreChains == AfterCall => (~ub /\ \A i \in 0..(SEGSIZE - 1) : Chained(Heap, i))

WildernessLast(h) ==
    /\ Len(Blocks(h)) > 0
    /\ h.wilderness = Blocks(h)[Len(Blocks(h))]
    /\ next_blkp(h, h.wilderness) = h.heap_end
    /\ geth_size(h, h.heap_end) = 0
    /\ get_alloc(h, hdrp(h.wilderness)) = FREE
    /\ geth_size(h, h.wilderness) >= MINSIZE
    /\ Listings(h, h.wilderness) = {}

(* C20: after every public call the wilderness pointer designates the last *)
(* real block before the epilogue, free, of size >= 16, on no list; no     *)
(* allocate takes the wilderness whole.                                    *)
C20_WildernessLast ==
    AfterCall =>
      /\ ~ub
      /\ WildernessLast(Heap)
      /\ (last.op \in {"malloc", "calloc"} /\ last.ret # NULL)
            => last.ret + last.n <= hdrp(wilderness)

(* The footer of a block with the size and the three flags of its header. *)
FooterAgrees(h, b) ==
    /\ getf_size(h, b) = geth_size(h, b)
    /\ get_alloc(h, ftrp(h, b)) = get_alloc(h, hdrp(b))
    /\ get_palloc(h, ftrp(h, b)) = get_palloc(h, hdrp(b))
    /\ get_large(h, ftrp(h, b)) = get_large(h, hdrp(b))

(* C21: after every public call the footer of every free block, the       *)
(* wilderness included, has the size, the allocation bit, the predecessor *)
(* bit and the large bit of its header.                                   *)
C21_FootersAgree ==
    AfterCall => (~ub /\ \A b \in FreeSet(Heap) : FooterAgrees(Heap, b))

(* The heap after a = allocate(80); b = allocate(40); c = allocate(80);    *)
(* free(a); free(c) from the state mm_init leaves: a's block of 88 bytes    *)
(* at 72, free; b's block of 48 bytes at 160; from c's pointer 208 on, one  *)
(* free block up to the epilogue.                                           *)
BeforeD ==
    /\ phase = "ready" /\ ~ub /\ calls = 5
    /\ last.op = "free" /\ last.p = 208
    /\ Live = {160} /\ live[160].n = 40
    /\ Topology(Heap) = <<<<88, FREE>>, <<48, ALLOC>>, <<248, FREE>>>>

AllocatesD == BeforeD /\ last'.op = "malloc" /\ last'.n = 40

(* C22, as stated: after those five calls the freed blocks of a and c are *)
(* both in the list of bin 5, c inserted last, and d = allocate(40) is    *)
(* the pointer c had.                                                     *)
C22_TakesSlotOfC ==
    [][ AllocatesD => (Members(Heap, 5) = <<208, 72>> /\ last'.ret = 208) ]_vars

(* C22, amended: after those five calls the freed block of a, of 88 bytes, *)
(* is the one member of the list of bin 6 and of all lists; the freed      *)
(* block of c has merged into the wilderness and is on no list; and        *)
(* d = allocate(40) is the pointer a had, the 40 bytes left of a's block   *)
(* going to the list of bin 3.                                             *)
C22_TakesSlotOfA ==
    [][ AllocatesD
          => /\ Members(Heap, 6) = <<72>>
             /\ ListedCount(Heap, 0) = 1
             /\ wilderness = 208 /\ Listings(Heap, 208) = {}
             /\ last'.ret = 72
             /\ Members(Heap', 3) = <<120>>
             /\ ListedCount(Heap', 0) = 1 ]_vars

C22_Witness ==
    /\ phase = "ready" /\ ~ub /\ calls = 6
    /\ last.op = "malloc" /\ last.n = 40 /\ last.ret = 72
    /\ Live = {72, 160}
    /\ Topology(Heap) = <<<<48, ALLOC>>, <<40, FREE>>, <<48, ALLOC>>, <<248, FREE>>>>

(* ------------------------------- find_fit ------------------------------- *)


(* The listed blocks of at least asize bytes. *)
Fits(h, asize) ==
    {b \in UNION {{Members(h, i)[k] : k \in 1..Len(Members(h, i))} : i \in (0..(SEGSIZE - 1))} :
        geth_size(h, b) >= asize}

(* The least size among them. *)
LeastFit(h, asize) ==
    CHOOSE s \in {geth_size(h, b) : b \in Fits(h, asize)} :
        \A b \in Fits(h, asize) : s <= geth_size(h, b)

(* The first block of s bytes from the root of its list: the one inserted last. *)
NewestOf(h, s) ==
    LET m == Members(h, get_index(s))
        k == CHOOSE j \in 1..Len(m) :
                 geth_size(h, m[j]) = s /\ \A l \in 1..(j - 1) : geth_size(h, m[l]) # s
    IN  m[k]

(* A sequence without its entries equal to b. *)
Dropped(m, b) == SelectSeq(m, LAMBDA x : x # b)

(* What find_fit is to return on the heap h, against what f = find_fit(h, asize) is. *)
FindFitAnswers(h, asize, f) ==
    /\ ~f.ub
    /\ Fits(h, asize) # {} =>
          /\ f.ret = NewestOf(h, LeastFit(h, asize))
          /\ \A i \in (0..(SEGSIZE - 1)) : Members(f, i) = Dropped(Members(h, i), f.ret)
          /\ Topology(f) = Topology(h)
    /\ (Fits(h, asize) = {} /\ geth_size(h, h.wilderness) - MINSIZE >= asize) =>
          /\ f.ret = h.wilderness
          /\ f.mem = h.mem
    /\ (Fits(h, asize) = {} /\ geth_size(h, h.wilderness) - MINSIZE < asize) =>
          /\ f.ret = NULL
          /\ f.mem = h.mem
    /\ f.brk = h.brk /\ f.wilderness = h.wilderness

(* The adjusted sizes of the workload's requests. *)
Asizes == {malloc_asize(n) : n \in workload \ {0}}

(* C23: on the heap between two public calls find_fit(asize) returns, and   *)
(* unlinks, the listed block of least size >= asize, of several of that     *)
(* size the one inserted last; when no listed block fits, the wilderness    *)
(* if size(wilderness) - 16 >= asize, and otherwise no block, changing      *)
(* nothing.                                                                 *)
C23_FindFitBestFit ==
    (phase = "ready" /\ ~ub) =>
        \A asize \in Asizes : FindFitAnswers(Heap, asize, find_fit(Heap, asize))

(* A list whose newest block fits but is not the least that fits. *)
C23_Witness ==
    /\ phase = "ready" /\ ~ub
    /\ \E asize \in Asizes :
          /\ Cardinality(Fits(Heap, asize)) >= 2
          /\ seg_list(Heap, get_index(LeastFit(Heap, asize))) \in Fits(Heap, asize)
          /\ geth_size(Heap, seg_list(Heap, get_index(LeastFit(Heap, asize))))
                > LeastFit(Heap, asize)

(* --------------------------------- place -------------------------------- *)

(* The heap malloc hands to place: what find_fit left when it found a block, *)
(* and else what extend_heap left; .ret is the block.                        *)
BeforePlace(f, asize) ==
    IF f.ret # NULL THEN f
    ELSE extend_heap(f, malloc_extendsize(f, asize) \div WSIZE, TRUE)

(* The lists of r are those of g, but for the block nb at the root of list i. *)
Pushed(g, r, i, nb) ==
    \A j \in (0..(SEGSIZE - 1)) :
        Members(r, j) = IF j = i THEN <<nb>> \o Members(g, j) ELSE Members(g, j)

SameLists(g, r) == \A j \in (0..(SEGSIZE - 1)) : Members(r, j) = Members(g, j)

(* What place(bp, asize) is to do on the heap g, against r = place(g, bp, asize). *)
PlaceAnswers(g, bp, asize, csize, r) ==
    /\ ~r.ub
    /\ get_alloc(g, hdrp(bp)) = FREE
    /\ get_alloc(r, hdrp(bp)) = ALLOC
    /\ csize - asize >= MINSIZE =>
          /\ geth_size(r, bp) = asize
          /\ geth_size(r, bp + asize) = csize - asize
          /\ get_alloc(r, hdrp(bp + asize)) = FREE
          /\ FooterAgrees(r, bp + asize)
          /\ bp + csize = next_blkp(r, bp + asize)
          /\ IF bp = g.wilderness
               THEN r.wilderness = bp + asize /\ SameLists(g, r)
               ELSE /\ r.wilderness = g.wilderness
                    /\ Pushed(g, r, get_index(csize - asize), bp + asize)
    /\ csize - asize < MINSIZE =>
          /\ geth_size(r, bp) = csize
          /\ get_palloc(r, hdrp(bp + csize)) = PALLOC
          /\ r.wilderness = g.wilderness
          /\ bp # g.wilderness
          /\ SameLists(g, r)
    /\ geth_size(r, bp) - asize \in {0, DSIZE}

PlaceOn(g, asize) == PlaceAnswers(g, g.ret, asize, geth_size(g, g.ret), place(g, g.ret, asize))

(* C24: place(bp, asize) on the free block malloc found or made, of csize    *)
(* bytes: with csize - asize >= 16 the allocated block has asize bytes and   *)
(* the other csize - asize bytes are one free block, the wilderness when bp  *)
(* was it and else at the root of the list of bin(csize - asize); otherwise  *)
(* the whole block is allocated and the predecessor bit of the block after   *)
(* it is set; the allocated block has 0 or 8 bytes more than asize.          *)
C24_PlaceSplitsOrTakesWhole ==
    (phase = "ready" /\ ~ub) =>
        \A asize \in Asizes : PlaceOn(BeforePlace(find_fit(Heap, asize), asize), asize)

(* A listed block of asize + 8 bytes, taken whole, and one that is split. *)
C24_Witness ==
    /\ phase = "ready" /\ ~ub
    /\ \E asize \in Asizes :
          Fits(Heap, asize) # {} /\ LeastFit(Heap, asize) = asize + DSIZE
    /\ \E asize \in Asizes :
          Fits(Heap, asize) # {} /\ LeastFit(Heap, asize) >= asize + MINSIZE

(* --------------------------- allocation alone ---------------------------- *)

(* Every call since mm_init was a malloc that returned a new allocation:    *)
(* a call adds at most one allocation, so the two counts agree only then.   *)
OnlyAllocated == phase = "ready" /\ ~ub /\ calls = Cardinality(Live)

(* A call of malloc with a positive size, made on a sound heap. *)
MallocStep ==
    /\ phase = "ready" /\ ~ub
    /\ last'.op = "malloc" /\ last'.n > 0 /\ calls' = calls + 1

(* C25: when every call since mm_init was a malloc of a positive size and    *)
(* the host never failed, the next such malloc returns a non-null pointer   *)
(* and leaves all 16 lists empty.                                           *)
C25_AllocateOnlyKeepsListsEmpty ==
    [][ (OnlyAllocated /\ MallocStep /\ ~last'.hostfail)
          => (~ub' /\ last'.ret # NULL /\ Roots(Heap') = EmptyRoots
              /\ Roots(Heap) = EmptyRoots) ]_vars

(* As many allocations as calls, the heap extended on the way. *)
C25_Witness ==
    /\ OnlyAllocated /\ calls = Room(workload)
    /\ last.op = "malloc" /\ last.ret # NULL
    /\ brk > 2 * CHUNKSIZE
    /\ Roots(Heap) = EmptyRoots

(* ------------------------------ extension ------------------------------- *)

FreeStep == phase = "ready" /\ ~ub /\ last'.op = "free" /\ calls' = calls + 1

(* max(CHUNKSIZE, asize - (size(wilderness) - MINSIZE)) *)
ExtensionFor(h, asize) ==
    IF asize - (geth_size(h, h.wilderness) - MINSIZE) > CHUNKSIZE
      THEN asize - (geth_size(h, h.wilderness) - MINSIZE)
      ELSE CHUNKSIZE

(* What the extension of a malloc(asize) is to be: h the heap at the call,  *)
(* f what find_fit left, e what extend_heap left, r the heap at the return. *)
ExtensionAnswers(h, asize, f, e, r) ==
    /\ ~f.ub /\ f.ret = NULL
    /\ r.brk - h.brk = ExtensionFor(h, asize)
    /\ e.brk = r.brk
    /\ e.ret = h.wilderness /\ e.wilderness = h.wilderness
    /\ SameLists(h, e)
    /\ geth_size(e, e.wilderness) = geth_size(h, h.wilderness) + (r.brk - h.brk)
    /\ geth_size(e, e.wilderness) >= asize + MINSIZE
    /\ e.heap_end = e.brk
    /\ geth_size(r, h.wilderness) = asize
    /\ r.wilderness = h.wilderness + asize
    /\ SameLists(h, r)

ExtendsFor(asize, f) ==
    ExtensionAnswers(Heap, asize, f, BeforePlace(f, asize), Heap')

(* C26: malloc moves the break only when find_fit found nothing, and then   *)
(* by max(192, asize - (size(wilderness) - 16)) bytes; the new bytes join   *)
(* the old wilderness, no list changes, the wilderness then has at least    *)
(* asize + 16 bytes and place splits it; no call lowers the break, and free *)
(* leaves the bounds of the heap as they were.                              *)
C26_ExtendsOnlyWithoutFit ==
    [][ /\ brk' >= brk
        /\ FreeStep =>
              (brk' = brk /\ heap_start' = heap_start /\ heap_end' = heap_end)
        /\ (MallocStep /\ brk' # brk) =>
              ExtendsFor(malloc_asize(last'.n), find_fit(Heap, malloc_asize(last'.n))) ]_vars

(* The first malloc, of 65529 bytes: more than a chunk is asked of the host. *)
C26_Witness ==
    /\ phase = "ready" /\ ~ub /\ calls = 1
    /\ last.op = "malloc" /\ last.n = 65529 /\ last.ret # NULL
    /\ brk > last.n /\ brk < last.n + CHUNKSIZE
    /\ geth_size(Heap, wilderness) = MINSIZE
    /\ Roots(Heap) = EmptyRoots

(* --------------------------------- free ---------------------------------- *)

(* The block of the allocation p: malloc returned its bp plus the shift. *)
BlockOf(p) == p - malloc_shift(live[p].n)

(* The free neighbours of the block bp, NULL where the neighbour is allocated. *)
FreeBefore(h, bp) == IF get_palloc(h, hdrp(bp)) = PFREE THEN prev_blkp(h, bp) ELSE NULL
FreeAfter(h, bp) ==
    IF get_alloc(h, hdrp(next_blkp(h, bp))) = FREE THEN next_blkp(h, bp) ELSE NULL

(* Where the merged block starts and how many bytes it has. *)
MergedAt(h, bp) == IF FreeBefore(h, bp) # NULL THEN FreeBefore(h, bp) ELSE bp
MergedSize(h, bp) ==
    geth_size(h, bp)
      + (IF FreeBefore(h, bp) = NULL THEN 0 ELSE geth_size(h, FreeBefore(h, bp)))
      + (IF FreeAfter(h, bp) = NULL THEN 0 ELSE geth_size(h, FreeAfter(h, bp)))

(* The lists of r are those of h without the two neighbours, and with the  *)
(* block m at the root of list i when it is listed.                        *)
Relisted(h, r, before, after, m, i, listed) ==
    \A j \in (0..(SEGSIZE - 1)) :
        Members(r, j) = (IF listed /\ j = i THEN <<m>> ELSE <<>>)
                          \o Dropped(Dropped(Members(h, j), before), after)

(* What free is to do for the block bp of the heap h, against the heap r. *)
FreeAnswers(h, bp, r) ==
    /\ ~r.ub
    /\ get_alloc(h, hdrp(bp)) = ALLOC
    /\ get_alloc(r, hdrp(MergedAt(h, bp))) = FREE
    /\ geth_size(r, MergedAt(h, bp)) = MergedSize(h, bp)
    /\ FooterAgrees(r, MergedAt(h, bp))
    /\ r.wilderness = IF next_blkp(h, bp) = h.wilderness THEN MergedAt(h, bp)
                      ELSE h.wilderness
    /\ Relisted(h, r, FreeBefore(h, bp), FreeAfter(h, bp), MergedAt(h, bp),
                get_index(MergedSize(h, bp)), next_blkp(h, bp) # h.wilderness)

(* C27: free(p) of a live allocation leaves one free block, of the size of  *)
(* p's block and of its free neighbours, the neighbours off their lists;    *)
(* it is the wilderness, on no list, when the block after p's was the       *)
(* wilderness, and else at the root of the list of bin(merged size).        *)
C27_FreeMergesNeighbours ==
    [][ (FreeStep /\ last'.p \in Live)
          => FreeAnswers(Heap, BlockOf(last'.p), Heap') ]_vars

====
